---- MODULE Spec2Model ----
(***************************************************************************)
(* reqwasm http.rs: the Request builder and the Response accessor, run     *)
(* against a nondeterministic host (the browser objects behind web_sys).   *)
(* One Request is built, sent and its Response read.  Every host call that *)
(* web_sys types as Result<_, JsValue> may succeed or throw; every host    *)
(* promise may resolve or reject.                                          *)
(***************************************************************************)
EXTENDS Integers, Sequences, FiniteSets, TLC

VARIABLES
    pc,           \* "init" | "building" | "fetching" | "responded" | "failed" | "panic"
    req,          \* the Request value being built: [options, headers, url]
    nCalls,       \* number of setter calls made on req
    headerLog,    \* history: the header(k, v) calls that returned, in order
    ctor,         \* history: which constructor made req, and its url argument
    signalFired,  \* host: has the AbortSignal been aborted
    promise,      \* host: the promise returned by fetch_with_request
    fetchCount,   \* host: number of fetch_with_request calls received
    roundTrips,   \* host: number of network round trips completed
    sendInfo,     \* history: what send was called with
    result,       \* what send returned
    resp,         \* the Response value: [response |-> host response object]
    pending,      \* the body-decoding call suspended on its host promise
    decodeLog,    \* history: the body-decoding calls that finished, in order
    lastRead,     \* the value the last synchronous accessor returned
    panicSite     \* where the program panicked, "none" if it has not

vars == <<pc, req, nCalls, headerLog, ctor, signalFired, promise,
          fetchCount, roundTrips, sendInfo, result, resp, pending, decodeLog,
          lastRead, panicSite>>

reqVars == <<req, nCalls, headerLog, ctor>>
hostFetchVars == <<promise, fetchCount, roundTrips>>
respVars == <<resp, pending, decodeLog, lastRead>>

(***************************************************************************)
(* Bounds and input sets                                                   *)
(***************************************************************************)
MaxCalls == 3
MaxDecodes == 2

Unset == "<unset>"
Urls == {"https://api.example/items", "not a url"}
\* urls the host's Request constructor cannot parse
MalformedUrls == {"not a url"}
HeaderKeys == {"Accept", "ACCEPT", "X-Id", "bad key"}
HeaderValues == {"v1", "v2"}
Signals == {"signal1"}

(***************************************************************************)
(* Method and its Display impl                                             *)
(***************************************************************************)
Method == {"Method::GET", "Method::POST", "Method::PATCH", "Method::DELETE", "Method::PUT"}

Method_fmt(m) ==
    CASE m = "Method::GET"    -> "GET"
      [] m = "Method::POST"   -> "POST"
      [] m = "Method::PATCH"  -> "PATCH"
      [] m = "Method::DELETE" -> "DELETE"
      [] m = "Method::PUT"    -> "PUT"

(***************************************************************************)
(* Host: web_sys::Headers (names compare case-insensitively; the host      *)
(* stores them lower-cased) and web_sys::RequestInit                       *)
(***************************************************************************)
Lower(k) ==
    CASE k = "Accept"  -> "accept"
      [] k = "ACCEPT"  -> "accept"
      [] k = "X-Id"    -> "x-id"
      [] OTHER         -> k

\* Headers.set throws a TypeError on a name or value that is no valid header.
\* The values of HeaderValues are valid and already in the form the host
\* stores (no leading or trailing whitespace for it to strip).
Headers_valid(k, v) == k # "bad key"

Headers_new == {}

Headers_set(h, k, v) == {p \in h : p[1] # Lower(k)} \cup {<<Lower(k), v>>}

Headers_has(h, k) == \E p \in h : p[1] = Lower(k)

Headers_get(h, k) == (CHOOSE p \in h : p[1] = Lower(k))[2]

RequestInit_new ==
    [body |-> Unset, cache |-> Unset, credentials |-> Unset, headers |-> {<<Unset, Unset>>},
     integrity |-> Unset, method |-> Unset, mode |-> Unset, observe |-> Unset,
     redirect |-> Unset, referrer |-> Unset, referrer_policy |-> Unset,
     signal |-> Unset]

(***************************************************************************)
(* Request: constructors and setters, each self -> Self                    *)
(***************************************************************************)
NoRequest == [options |-> RequestInit_new, headers |-> Headers_new, url |-> Unset]

Request_new(url) == [options |-> RequestInit_new, headers |-> Headers_new, url |-> url]

Request_body(self, body) == [self EXCEPT !.options.body = body]

Request_cache(self, cache) == [self EXCEPT !.options.cache = cache]

Request_credentials(self, credentials) == [self EXCEPT !.options.credentials = credentials]

\* a header call that appends a second entry instead of overwriting
Request_header_keep_first(self, key, value) ==
    IF Headers_has(self.headers, key) THEN self
    ELSE [self EXCEPT !.headers = Headers_set(self.headers, key, value)]

\* the value returned when headers.set(key, value) is Ok
Request_header(self, key, value) ==
    [self EXCEPT !.headers = Headers_set(self.headers, key, value)]

Request_integrity(self, integrity) == [self EXCEPT !.options.integrity = integrity]

Request_method(self, method) == [self EXCEPT !.options.method = Method_fmt(method)]

Request_mode(self, mode) == [self EXCEPT !.options.mode = mode]

Request_observe(self, observe) == [self EXCEPT !.options.observe = observe]

Request_redirect(self, redirect) == [self EXCEPT !.options.redirect = redirect]

Request_referrer(self, referrer) == [self EXCEPT !.options.referrer = referrer]

Request_referrer_policy(self, referrer_policy) ==
    [self EXCEPT !.options.referrer_policy = referrer_policy]

\* signal is Unset for None
Request_abort_signal(self, signal) == [self EXCEPT !.options.signal = signal]

Request_get(url) == Request_method(Request_new(url), "Method::GET")

Request_post(url) == Request_method(Request_new(url), "Method::POST")

Request_put_as_post(url) == Request_method(Request_new(url), "Method::POST")

Request_put(url) == Request_method(Request_new(url), "Method::PUT")

Request_delete(url) == Request_method(Request_new(url), "Method::DELETE")

Request_patch(url) == Request_method(Request_new(url), "Method::PATCH")

(***************************************************************************)
(* Values crossing the host boundary                                       *)
(***************************************************************************)
\* a host value: a Response object (its status and body-used flag) or not
NoValue == [kind |-> "none", status |-> 0, bodyUsed |-> FALSE]

HostResponses == [kind : {"Response"}, status : {201, 404}, bodyUsed : {FALSE}]

NotAResponse == [NoValue EXCEPT !.kind = "Other"]

NoPromise == [state |-> "none", value |-> NoValue, error |-> "-"]
Pending == [state |-> "pending", value |-> NoValue, error |-> "-"]
Resolved(v) == [state |-> "resolved", value |-> v, error |-> "-"]
Rejected(e) == [state |-> "rejected", value |-> NoValue, error |-> e]

NoResult == [tag |-> "None", variant |-> "-", value |-> "-"]
Ok(v) == [tag |-> "Ok", variant |-> "-", value |-> v]
Err(variant, v) == [tag |-> "Err", variant |-> variant, value |-> v]
Panic(site) == [tag |-> "Panic", variant |-> "-", value |-> site]

\* crate::js_to_error: the host error value, kept, as this module's Error
js_to_error(e) == Err("JsError", e)

\* From<serde_json::Error> for Error, applied by `?`
serde_to_error(e) == Err("SerdeError", e)

NoResponse == [present |-> FALSE, response |-> NoValue]

(***************************************************************************)
(* Initial state: no Request yet                                           *)
(***************************************************************************)
NoSendInfo ==
    [called |-> FALSE, descriptorOk |-> FALSE, signal |-> FALSE, preFired |-> FALSE,
     firedPending |-> FALSE]
NoPending ==
    [op |-> "none", host |-> "-", shape |-> "-", usedBefore |-> FALSE, afterRead |-> FALSE]
NoRead == [name |-> "none", s |-> "-", n |-> 0, b |-> FALSE]
NoCtor == [name |-> "none", url |-> Unset]

Init ==
    /\ pc = "init"
    /\ req = NoRequest
    /\ nCalls = 0
    /\ headerLog = << >>
    /\ ctor = NoCtor
    /\ signalFired = FALSE
    /\ promise = NoPromise
    /\ fetchCount = 0
    /\ roundTrips = 0
    /\ sendInfo = NoSendInfo
    /\ result = NoResult
    /\ resp = NoResponse
    /\ pending = NoPending
    /\ decodeLog = << >>
    /\ lastRead = NoRead
    /\ panicSite = "none"

\* a panic unwinds the calling task: nothing runs after it
PanicAt(site) ==
    /\ pc' = "panic"
    /\ panicSite' = site

(***************************************************************************)
(* Constructors.  Request::new calls Headers::new().expect("headers"):     *)
(* headersOk is whether the host's Headers constructor returned Ok.        *)
(***************************************************************************)
Construct(name, url, self, headersOk) ==
    /\ pc = "init"
    /\ IF headersOk
       THEN /\ pc' = "building"
            /\ req' = self
            /\ ctor' = [name |-> name, url |-> url]
            /\ UNCHANGED panicSite
       ELSE /\ PanicAt("Request::new")
            /\ UNCHANGED <<req, ctor>>
    /\ UNCHANGED <<nCalls, headerLog, signalFired, hostFetchVars, sendInfo, result,
                   respVars>>

New == \E url \in Urls, headersOk \in BOOLEAN : Construct("new", url, Request_new(url), headersOk)

Get == \E url \in Urls, headersOk \in BOOLEAN : Construct("get", url, Request_get(url), headersOk)

Post == \E url \in Urls, headersOk \in BOOLEAN : Construct("post", url, Request_post(url), headersOk)

Put == \E url \in Urls, headersOk \in BOOLEAN : Construct("put", url, Request_put(url), headersOk)

Delete == \E url \in Urls, headersOk \in BOOLEAN : Construct("delete", url, Request_delete(url), headersOk)

Patch == \E url \in Urls, headersOk \in BOOLEAN : Construct("patch", url, Request_patch(url), headersOk)

(***************************************************************************)
(* Setters                                                                 *)
(***************************************************************************)
Setter(self) ==
    /\ pc = "building"
    /\ nCalls < MaxCalls
    /\ req' = self
    /\ nCalls' = nCalls + 1
    /\ UNCHANGED <<pc, headerLog, ctor, signalFired, hostFetchVars, sendInfo, result,
                   respVars, panicSite>>

Body == Setter(Request_body(req, "{a:1}"))

Cache == Setter(Request_cache(req, "RequestCache::NoStore"))

Credentials == Setter(Request_credentials(req, "RequestCredentials::Include"))

\* self.headers.set(key, value).expect("set header")
Header ==
    /\ pc = "building"
    /\ nCalls < MaxCalls
    /\ \E key \in HeaderKeys, value \in HeaderValues :
         IF Headers_valid(key, value)
         THEN /\ req' = Request_header(req, key, value)
              /\ headerLog' = Append(headerLog, <<key, value>>)
              /\ nCalls' = nCalls + 1
              /\ UNCHANGED <<pc, panicSite>>
         ELSE /\ PanicAt("header")
              /\ UNCHANGED <<req, headerLog, nCalls>>
    /\ UNCHANGED <<ctor, signalFired, hostFetchVars, sendInfo, result, respVars>>

Integrity == Setter(Request_integrity(req, "sha256-abc"))

SetMethod == \E method \in Method : Setter(Request_method(req, method))

Mode == Setter(Request_mode(req, "RequestMode::Cors"))

Observe == Setter(Request_observe(req, "ObserverCallback"))

Redirect == Setter(Request_redirect(req, "RequestRedirect::Follow"))

Referrer == Setter(Request_referrer(req, "about:client"))

ReferrerPolicy == Setter(Request_referrer_policy(req, "ReferrerPolicy::NoReferrer"))

AbortSignal == \E signal \in Signals \cup {Unset} : Setter(Request_abort_signal(req, signal))

\* host: AbortController.abort() on the controller of the signal; a fetch that
\* is pending with this signal attached is rejected with an AbortError.  Once
\* send has returned the signal no longer concerns the Request; what an abort
\* does to a body read is among the answers of HostReads.
FireSignal ==
    /\ pc \in {"init", "building", "fetching"}
    /\ ~signalFired
    /\ signalFired' = TRUE
    /\ IF pc = "fetching" /\ promise.state = "pending" /\ req.options.signal # Unset
       THEN /\ promise' = Rejected("AbortError")
            /\ sendInfo' = [sendInfo EXCEPT !.firedPending = TRUE]
       ELSE UNCHANGED <<promise, sendInfo>>
    /\ UNCHANGED <<pc, reqVars, fetchCount, roundTrips, result, respVars, panicSite>>

(***************************************************************************)
(* send: the synchronous part up to the await, then the part after it      *)
(***************************************************************************)
\* host: web_sys::Request::new_with_str_and_init; the constructor throws a
\* TypeError on a url it cannot parse and on a body with a GET request
HostRequest_ok(url, options) ==
    /\ url \notin MalformedUrls
    /\ ~(options.body # Unset /\ options.method \in {Unset, "GET"})

\* host: fetch(request); with an already aborted signal the promise is
\* rejected at once and nothing is sent
HostFetch(options, fired) ==
    IF options.signal # Unset /\ fired THEN Rejected("AbortError") ELSE Pending

\* self.options.headers(&self.headers)
Request_finalize(self) == [self EXCEPT !.options.headers = self.headers]

\* send that issues the fetch a second time (a retry)
Request_send_start_twice ==
    /\ pc = "building"
    /\ \E windowPresent \in BOOLEAN :
         LET self == Request_finalize(req)
             attached == self.options.signal # Unset
         IN  /\ sendInfo' = [called |-> TRUE,
                              descriptorOk |-> HostRequest_ok(self.url, self.options),
                              signal |-> attached,
                              preFired |-> attached /\ signalFired,
                              firedPending |-> FALSE]
             /\ IF ~HostRequest_ok(self.url, self.options)
                THEN /\ result' = js_to_error("TypeError")
                     /\ pc' = "failed"
                     /\ req' = NoRequest
                     /\ headerLog' = << >>
                     /\ nCalls' = 0
                     /\ ctor' = NoCtor
                     /\ UNCHANGED <<promise, fetchCount, panicSite>>
                ELSE IF ~windowPresent
                THEN /\ PanicAt("send")
                     /\ UNCHANGED <<reqVars, promise, fetchCount, result>>
                ELSE /\ fetchCount' = fetchCount + 2
                     /\ promise' = HostFetch(self.options, signalFired)
                     /\ pc' = "fetching"
                     /\ req' = self
                     /\ UNCHANGED <<nCalls, headerLog, ctor, result, panicSite>>
    /\ UNCHANGED <<signalFired, roundTrips, respVars>>

\* lines 127-133, up to the suspension on the fetch promise.  windowPresent is
\* whether web_sys::window() returns Some (it is None outside a window, as in
\* a worker).  The host request object is a local of send.
Request_send_start ==
    /\ pc = "building"
    /\ \E windowPresent \in BOOLEAN :
         LET self == Request_finalize(req)
             attached == self.options.signal # Unset
         IN  /\ sendInfo' = [called |-> TRUE,
                              descriptorOk |-> HostRequest_ok(self.url, self.options),
                              signal |-> attached,
                              preFired |-> attached /\ signalFired,
                              firedPending |-> FALSE]
             /\ IF ~HostRequest_ok(self.url, self.options)
                THEN /\ result' = js_to_error("TypeError")
                     /\ pc' = "failed"
                     /\ req' = NoRequest
                     /\ headerLog' = << >>
                     /\ nCalls' = 0
                     /\ ctor' = NoCtor
                     /\ UNCHANGED <<promise, fetchCount, panicSite>>
                ELSE IF ~windowPresent
                THEN /\ PanicAt("send")
                     /\ UNCHANGED <<reqVars, promise, fetchCount, result>>
                ELSE /\ fetchCount' = fetchCount + 1
                     /\ promise' = HostFetch(self.options, signalFired)
                     /\ pc' = "fetching"
                     /\ req' = self
                     /\ UNCHANGED <<nCalls, headerLog, ctor, result, panicSite>>
    /\ UNCHANGED <<signalFired, roundTrips, respVars>>

\* host: the network round trip completes and the fetch promise resolves
HostResolve ==
    /\ pc = "fetching"
    /\ promise.state = "pending"
    /\ \E v \in HostResponses \cup {NotAResponse} : promise' = Resolved(v)
    /\ roundTrips' = roundTrips + 1
    /\ UNCHANGED <<pc, reqVars, signalFired, fetchCount, sendInfo, result, respVars,
                   panicSite>>

\* host: the fetch fails (network error, CORS) and the promise rejects
HostReject ==
    /\ pc = "fetching"
    /\ promise.state = "pending"
    /\ promise' = Rejected("NetworkError")
    /\ UNCHANGED <<pc, reqVars, signalFired, fetchCount, roundTrips, sendInfo, result,
                   respVars, panicSite>>

\* response.dyn_into::<web_sys::Response>() is Ok
IsHostResponse(v) == v.kind = "Response"

\* the tail of send with a rejection taken for a response
Request_send_result_ignore_reject(p) ==
    IF p.state = "rejected"
    THEN [result |-> Ok("Response"), resp |-> [present |-> TRUE, response |-> p.value]]
    ELSE IF IsHostResponse(p.value)
    THEN [result |-> Ok("Response"), resp |-> [present |-> TRUE, response |-> p.value]]
    ELSE [result |-> Err("Other", "can't convert to Response"), resp |-> NoResponse]

\* the tail of send with unchecked_into in place of dyn_into
Request_send_result_unchecked(p) ==
    IF p.state = "rejected"
    THEN [result |-> js_to_error(p.error), resp |-> NoResponse]
    ELSE [result |-> Ok("Response"), resp |-> [present |-> TRUE, response |-> p.value]]

\* lines 133-139: what send returns for the settled promise p
Request_send_result(p) ==
    IF p.state = "rejected"
    THEN [result |-> js_to_error(p.error), resp |-> NoResponse]
    ELSE IF IsHostResponse(p.value)
    THEN [result |-> Ok("Response"), resp |-> [present |-> TRUE, response |-> p.value]]
    ELSE [result |-> Err("Other", "can't convert to Response"), resp |-> NoResponse]

\* send resumes; self (the Request) is dropped with the future
Request_send_resume ==
    /\ pc = "fetching"
    /\ promise.state \in {"resolved", "rejected"}
    /\ LET r == Request_send_result(promise)
       IN  /\ result' = r.result
           /\ resp' = r.resp
           /\ pc' = IF r.result.tag = "Ok" THEN "responded" ELSE "failed"
    /\ req' = NoRequest
    /\ headerLog' = << >>
    /\ nCalls' = 0
    /\ ctor' = NoCtor
    /\ UNCHANGED <<signalFired, hostFetchVars, sendInfo, pending, decodeLog, lastRead,
                   panicSite>>

(***************************************************************************)
(* Response: synchronous accessors, each a read of the host object         *)
(***************************************************************************)
Accessor(name, str, num, bool) ==
    /\ pc = "responded"
    /\ lastRead' = [name |-> name, s |-> str, n |-> num, b |-> bool]
    /\ UNCHANGED <<pc, reqVars, signalFired, hostFetchVars, sendInfo, result, resp,
                   pending, decodeLog, panicSite>>

Response_url == Accessor("url", "https://api.example/items", 0, FALSE)

Response_redirected == Accessor("redirected", "-", 0, FALSE)

Response_status == Accessor("status", "-", resp.response.status, FALSE)

\* host: Response.ok is true for a status in 200..299
Response_ok == Accessor("ok", "-", 0, resp.response.status \in 200..299)

Response_status_text ==
    Accessor("status_text", IF resp.response.status = 201 THEN "Created" ELSE "Not Found",
             0, FALSE)

Response_headers == Accessor("headers", "Headers", 0, FALSE)

Response_body_used == Accessor("body_used", "-", 0, resp.response.bodyUsed)

\* a body accessor that takes the stream, which marks the body used
Response_body_disturbs ==
    /\ pc = "responded"
    /\ lastRead' = [name |-> "body", s |-> "ReadableStream", n |-> 0, b |-> FALSE]
    /\ resp' = [resp EXCEPT !.response.bodyUsed = TRUE]
    /\ UNCHANGED <<pc, reqVars, signalFired, hostFetchVars, sendInfo, result,
                   pending, decodeLog, panicSite>>

Response_body == Accessor("body", "ReadableStream", 0, FALSE)

Response_as_raw == Accessor("as_raw", "web_sys::Response", 0, FALSE)

(***************************************************************************)
(* Response: body decoding.  Each call asks the host to read the body and  *)
(* suspends on the promise it returns.  The host's answer is one of        *)
(*   "ok"     the promise resolves with the decoded body                   *)
(*   "empty"  the promise resolves with an empty result (body already used)*)
(*   "reject" the promise rejects                                          *)
(*   "throw"  the host call itself throws (the Err of Result<Promise, _>)  *)
(***************************************************************************)
HostReads(r) == IF r.bodyUsed THEN {"reject", "empty", "throw"} ELSE {"ok", "reject", "throw"}

\* whether the JSON value the host decoded fits the caller's T
Shapes == {"match", "mismatch"}

LogEntry(op, call, res) ==
    [op |-> op, usedBefore |-> call.usedBefore, afterRead |-> call.afterRead,
     host |-> call.host, shape |-> call.shape, result |-> res]

\* what a decoding call met: the host's answer, the body-used flag before the
\* call, and whether a synchronous accessor had been called before it
Call(op, host, shape) ==
    [op |-> op, host |-> host, shape |-> shape, usedBefore |-> resp.response.bodyUsed,
     afterRead |-> lastRead.name # "none"]

\* the host call returned a promise: the body is now used, the caller suspends
Suspend(op, host, shape) ==
    /\ pending' = Call(op, host, shape)
    /\ resp' = [resp EXCEPT !.response.bodyUsed = TRUE]
    /\ UNCHANGED <<pc, decodeLog, panicSite>>

\* the call returned (or panicked) without suspending
ReturnNow(op, host, res) ==
    /\ decodeLog' = Append(decodeLog, LogEntry(op, Call(op, host, "-"), res))
    /\ IF res.tag = "Panic" THEN PanicAt(res.value) ELSE UNCHANGED <<pc, panicSite>>
    /\ UNCHANGED <<resp, pending>>

DecodeCall(op) ==
    /\ pc = "responded"
    /\ pending.op = "none"
    /\ Len(decodeLog) < MaxDecodes
    /\ UNCHANGED <<reqVars, signalFired, hostFetchVars, sendInfo, result, lastRead>>

DecodeResume(op, res) ==
    /\ pc = "responded"
    /\ pending.op = op
    /\ decodeLog' = Append(decodeLog, LogEntry(op, pending, res))
    /\ pending' = NoPending
    /\ UNCHANGED <<pc, reqVars, signalFired, hostFetchVars, sendInfo, result, resp,
                   lastRead, panicSite>>

\* form_data: self.response.form_data().map_err(js_to_error)?
Response_form_data_call ==
    /\ DecodeCall("form_data")
    /\ \E host \in HostReads(resp.response) :
         IF host = "throw"
         THEN ReturnNow("form_data", host, js_to_error("TypeError"))
         ELSE Suspend("form_data", host, "-")

\* JsFuture::from(promise).await.map_err(js_to_error)?; Ok(FormData::from(val))
Response_form_data_result(host) ==
    CASE host = "ok"     -> Ok("FormData")
      [] host = "empty"  -> Ok("FormData(empty)")
      [] host = "reject" -> js_to_error("TypeError")

Response_form_data_resume ==
    DecodeResume("form_data", Response_form_data_result(pending.host))

\* json: self.response.json().map_err(js_to_error)?
Response_json_call ==
    /\ DecodeCall("json")
    /\ \E host \in HostReads(resp.response) :
         IF host = "throw"
         THEN ReturnNow("json", host, js_to_error("TypeError"))
         ELSE \E shape \in Shapes : Suspend("json", host, shape)

\* json with the deserialization error replaced by a default T
Response_json_result_default(host, shape) ==
    CASE host = "reject" -> js_to_error("SyntaxError")
      [] host = "empty"  -> Ok("T::default()")
      [] host = "ok"     -> IF shape = "match" THEN Ok("T") ELSE Ok("T::default()")

\* JsFuture::from(promise).await.map_err(js_to_error)?; Ok(json.into_serde()?)
\* An empty result (undefined or null) fits no T.
Response_json_result(host, shape) ==
    CASE host = "reject" -> js_to_error("SyntaxError")
      [] host = "empty"  -> serde_to_error("invalid type: null")
      [] host = "ok"     -> IF shape = "match" THEN Ok("T")
                            ELSE serde_to_error("missing field")

Response_json_resume ==
    DecodeResume("json", Response_json_result(pending.host, pending.shape))

\* text: self.response.text().unwrap()
Response_text_call ==
    /\ DecodeCall("text")
    /\ \E host \in HostReads(resp.response) :
         IF host = "throw"
         THEN ReturnNow("text", host, Panic("text"))
         ELSE Suspend("text", host, "-")

\* JsFuture::from(promise).await.map_err(js_to_error)?; String::from(&string)
Response_text_result(host) ==
    CASE host = "ok"     -> Ok("{id:42}")
      [] host = "empty"  -> Ok("")
      [] host = "reject" -> js_to_error("TypeError")

Response_text_resume ==
    DecodeResume("text", Response_text_result(pending.host))

Next ==
    \/ New \/ Get \/ Post \/ Put \/ Delete \/ Patch
    \/ Body \/ Cache \/ Credentials \/ Header \/ Integrity \/ SetMethod \/ Mode
    \/ Observe \/ Redirect \/ Referrer \/ ReferrerPolicy \/ AbortSignal
    \/ FireSignal
    \/ Request_send_start \/ HostResolve \/ HostReject \/ Request_send_resume
    \/ Response_url \/ Response_redirected \/ Response_status \/ Response_ok
    \/ Response_status_text \/ Response_headers \/ Response_body_used
    \/ Response_body \/ Response_as_raw
    \/ Response_form_data_call \/ Response_form_data_resume
    \/ Response_json_call \/ Response_json_resume
    \/ Response_text_call \/ Response_text_resume

Spec == Init /\ [][Next]_vars

(***************************************************************************)
(* Properties                                                              *)
(***************************************************************************)
SendReturned == pc \in {"failed", "responded"}

JsonEntries == {i \in 1..Len(decodeLog) : decodeLog[i].op = "json"}

\* the value of the last header call in log whose key matches k without case
LastValue(log, k) ==
    LET hits == {i \in 1..Len(log) : Lower(log[i][1]) = Lower(k)}
        last == CHOOSE i \in hits : \A j \in hits : j <= i
    IN  log[last][2]

ConvenienceMethod(name) ==
    CASE name = "get"    -> "Method::GET"
      [] name = "post"   -> "Method::POST"
      [] name = "patch"  -> "Method::PATCH"
      [] name = "delete" -> "Method::DELETE"
      [] name = "put"    -> "Method::PUT"

\* C1: no fallible operation panics: a host failure met by header, send or
\* text comes back as an Err value (Request::new holds the same expect on
\* the host's Headers constructor).
C1_HostFailureIsErr == panicSite \notin {"header", "send", "text"}

\* C2: when the host rejects the request descriptor or rejects the fetch
\* promise, send returns Err: it does not panic and yields no Response.
C2_UnreachableIsErr ==
    (sendInfo.called /\ pc # "fetching"
       /\ (~sendInfo.descriptorOk \/ promise.state = "rejected"))
    => (pc = "failed" /\ result.tag = "Err" /\ result.variant = "JsError"
        /\ ~resp.present /\ panicSite = "none")

C2_Witness ==
    /\ pc = "failed"
    /\ promise = Rejected("NetworkError")
    /\ result = js_to_error("NetworkError")
    /\ ~resp.present

\* C3: a second text() call on the same Response does not panic and returns
\* what the host reports for the used body: Err when the host fails the read
\* (by rejecting or by throwing), Ok("") when the host returns empty.
C3_SecondTextIsHostOutcome ==
    \A i \in 2..Len(decodeLog) :
        (decodeLog[i].op = "text" /\ decodeLog[i - 1].op = "text")
        => /\ decodeLog[i].usedBefore
           /\ decodeLog[i].result.tag # "Panic"
           /\ decodeLog[i].host \in {"reject", "throw"} => decodeLog[i].result.tag = "Err"
           /\ decodeLog[i].host = "empty" => decodeLog[i].result = Ok("")

\* C4: a send with an abort signal attached that fired before the call, or
\* while the fetch was pending, ends with the abort error and not with a
\* Response; with a pre-fired signal no round trip completes.  Stated for
\* the sends whose descriptor the host accepted.
C4_AbortedSendIsAbortErr ==
    (sendInfo.called /\ sendInfo.descriptorOk /\ sendInfo.signal
       /\ (sendInfo.preFired \/ sendInfo.firedPending) /\ pc # "fetching")
    => (result = js_to_error("AbortError") /\ ~resp.present
        /\ (sendInfo.preFired => roundTrips = 0))

\* C5: a Response exists only after a send whose fetch promise resolved with
\* a host Response; a resolved value that is no host Response makes send
\* return the "can't convert to Response" error and no Response.
C5_ResponseIsTypeChecked ==
    /\ resp.present =>
         (sendInfo.called /\ result.tag = "Ok" /\ promise.state = "resolved"
          /\ IsHostResponse(promise.value) /\ IsHostResponse(resp.response)
          /\ resp.response.status = promise.value.status)
    /\ (SendReturned /\ promise.state = "resolved" /\ ~IsHostResponse(promise.value))
       => (result = Err("Other", "can't convert to Response") /\ ~resp.present)

C5_Witness ==
    /\ pc = "failed"
    /\ promise = Resolved(NotAResponse)
    /\ result = Err("Other", "can't convert to Response")
    /\ ~resp.present

\* C6 as claimed: every send that returned Ok or Err issued the host fetch
\* exactly once.
C6_FetchExactlyOnce == (sendInfo.called /\ SendReturned) => fetchCount = 1

\* C6 amended: the host fetch is never issued twice; a send that returned
\* issued it once if the host accepted the request descriptor and not at all
\* if the host rejected the descriptor; nothing but send issues it.
C6_FetchOnceUnlessDescriptorRejected ==
    /\ fetchCount <= 1
    /\ ~sendInfo.called => fetchCount = 0
    /\ pc = "fetching" => fetchCount = 1
    /\ SendReturned => (fetchCount = 1 <=> sendInfo.descriptorOk)
    /\ SendReturned => (fetchCount = 1 <=> promise.state \in {"resolved", "rejected"})

C6_Witness ==
    /\ pc = "failed"
    /\ ~sendInfo.descriptorOk
    /\ result = js_to_error("TypeError")
    /\ fetchCount = 0

\* C7: right after get/post/patch/delete/put(url) the Request equals
\* new(url).method(M) for the constructor's M: same url, no header, every
\* option unset but method, which is the upper-case name of M.
C7_ConvenienceIsNewMethod ==
    (pc = "building" /\ nCalls = 0 /\ ctor.name # "new")
    => LET M == ConvenienceMethod(ctor.name)
       IN  /\ req = Request_method(Request_new(ctor.url), M)
           /\ req.url = ctor.url
           /\ req.headers = Headers_new
           /\ req.options = [RequestInit_new EXCEPT !.method = req.options.method]
           /\ "Method::" \o req.options.method = M

C7_Witness ==
    /\ pc = "building"
    /\ nCalls = 0
    /\ ctor = [name |-> "put", url |-> "https://api.example/items"]
    /\ req.options.method = "PUT"

\* C8: json on a body the host decodes but whose value does not fit T
\* returns the deserialization error, which differs from the error of a
\* host decode failure; json never panics and returns Ok only with a T
\* built from a value that fits.
C8_JsonMismatchIsSerdeErr ==
    /\ \A i \in JsonEntries :
         /\ decodeLog[i].result.tag \in {"Ok", "Err"}
         /\ (decodeLog[i].host = "ok" /\ decodeLog[i].shape = "mismatch")
            => (decodeLog[i].result.tag = "Err"
                /\ decodeLog[i].result.variant = "SerdeError")
         /\ decodeLog[i].host \in {"reject", "throw"}
            => (decodeLog[i].result.tag = "Err"
                /\ decodeLog[i].result.variant = "JsError")
         /\ decodeLog[i].result.tag = "Ok"
            => (decodeLog[i].result.value = "T" /\ decodeLog[i].host = "ok"
                /\ decodeLog[i].shape = "match")
    /\ \A i, j \in JsonEntries :
         (decodeLog[i].host = "ok" /\ decodeLog[i].shape = "mismatch"
            /\ decodeLog[j].host \in {"reject", "throw"})
         => decodeLog[i].result # decodeLog[j].result

C8_Witness ==
    /\ Len(decodeLog) = 2
    /\ decodeLog[1].op = "json" /\ decodeLog[1].host = "ok"
    /\ decodeLog[1].shape = "mismatch"
    /\ decodeLog[1].result = serde_to_error("missing field")
    /\ decodeLog[2].op = "json" /\ decodeLog[2].host = "reject"
    /\ decodeLog[2].result = js_to_error("SyntaxError")

\* C9: the header collection of a Request holds, for every key a header
\* call set (compared without case), the value of the last such call, and
\* this is the collection send puts into the options; other setters leave
\* it alone.
C9_LastHeaderWins ==
    pc \in {"building", "fetching"}
    => /\ \A i \in 1..Len(headerLog) :
            /\ Headers_has(req.headers, headerLog[i][1])
            /\ Headers_get(req.headers, headerLog[i][1])
                 = LastValue(headerLog, headerLog[i][1])
       /\ \A p \in req.headers : \E i \in 1..Len(headerLog) : Lower(headerLog[i][1]) = p[1]
       /\ pc = "fetching" => req.options.headers = req.headers

C9_Witness ==
    /\ pc = "fetching"
    /\ headerLog = << <<"Accept", "v1">>, <<"ACCEPT", "v2">> >>
    /\ req.options.body # Unset
    /\ req.options.headers = {<<"accept", "v2">>}

\* C10: the synchronous accessors leave the Response as it is: the body-used
\* flag is decided by the decoding calls alone, so a decoding call meets the
\* same body whether or not accessors ran before it.
C10_AccessorsReadOnly ==
    /\ \A i \in 1..Len(decodeLog) :
         decodeLog[i].usedBefore = (\E j \in 1..(i - 1) : decodeLog[j].host # "throw")
    /\ pending.op # "none" =>
         pending.usedBefore = (\E j \in 1..Len(decodeLog) : decodeLog[j].host # "throw")
    /\ resp.response.bodyUsed
         = (pending.op # "none" \/ \E j \in 1..Len(decodeLog) : decodeLog[j].host # "throw")

C10_Witness ==
    /\ lastRead.name = "body"
    /\ Len(decodeLog) = 1
    /\ decodeLog[1].afterRead
    /\ ~decodeLog[1].usedBefore
    /\ decodeLog[1].result = Ok("{id:42}")

====
